---- MODULE Spec2Model ----
(***************************************************************************)
(* A model of proxy_checker.py: the per-proxy probe (check_proxy), the     *)
(* thread-pool dispatcher (check_all_proxies), the aggregation step        *)
(* (save_working_proxies), the driver (main) and the parser of the proxy   *)
(* file (load_proxies).                                                    *)
(*                                                                         *)
(* Python dicts are records whose DOMAIN is the set of keys present.       *)
(* Elapsed times are integers (hundredths of a second, as round(.., 2)).   *)
(***************************************************************************)
EXTENDS Integers, Sequences, FiniteSets, TLC

(* ------------------------------ bounds -------------------------------- *)

\* Longest descriptor list handed to the dispatcher.
MaxProxies == 2

\* Largest elapsed time (in hundredths of a second) a successful probe reports.
MaxTime == 2

(* ------------------------- program constants -------------------------- *)

SUPPORTED_PROXY_TYPES == <<"http", "https", "socks4", "socks5">>

DEFAULT_MAX_WORKERS == 30

MIN_PORT == 1

MAX_PORT == 65535

\* The absolute ceiling on the pool size, the literal 50 of check_all_proxies.
WORKER_CEILING == 50

\* x.get("time", 999): the sort key of an entry that has no "time".
SORT_DEFAULT == 999

HTTP_OK == 200

(* --------------------------- small helpers ---------------------------- *)

Range(s) == {s[k] : k \in 1..Len(s)}

\* Python's min() of three integers.
Min3(a, b, c) ==
    LET m == IF a <= b THEN a ELSE b
    IN  IF m <= c THEN m ELSE c

\* str.lower() on the protocol names the model uses.
Lower(t) ==
    CASE t = "HTTP"   -> "http"
      [] t = "HTTPS"  -> "https"
      [] t = "SOCKS4" -> "socks4"
      [] t = "SOCKS5" -> "socks5"
      [] t = "FTP"    -> "ftp"
      [] t = "AVITO"  -> "avito"
      [] t = "Avito"  -> "avito"
      [] t = "Welcome" -> "welcome"
      [] OTHER        -> t

(* ------------------------ descriptors (inputs) ------------------------ *)

\* A port field: text that int() accepts (isint) with its value, or not.
Port(v) == [isint |-> TRUE, val |-> v]

NonNumericPort == [isint |-> FALSE, val |-> 0]

\* A proxy string.  form is its shape: "ip:port", "noport" (no colon) or
\* "empty"; ip is 0 for text that is no IP literal and k > 0 for the k-th
\* valid address.
ProxyStr(k) == [form |-> "ip:port", ip |-> k, port |-> Port(8080)]

TypeOf(k) == SUPPORTED_PROXY_TYPES[((k - 1) % Len(SUPPORTED_PROXY_TYPES)) + 1]

\* The list [(proxy, type)] of n valid descriptors, as load_proxies builds it.
Descriptors(n) == [k \in 1..n |-> [proxy |-> ProxyStr(k), type |-> TypeOf(k)]]

(* --------------------------- validate_* ------------------------------- *)

validate_ip_address(ip) == ip > 0

\* The port test with the range check left out.
validate_port_NoRange(port) == port.isint

validate_port(port) ==
    IF port.isint THEN MIN_PORT <= port.val /\ port.val <= MAX_PORT ELSE FALSE

(* ------------------------- network behaviours ------------------------- *)

\* The classes of requests.exceptions an exception raised by session.get
\* can be an instance of.  ProxyError is a subclass of ConnectionError;
\* ConnectTimeout is both a ConnectionError and a Timeout.
ExceptionClasses ==
    { {}, {"Timeout"}, {"ConnectionError"}, {"Timeout", "ConnectionError"},
      {"ProxyError", "ConnectionError"},
      {"Timeout", "ProxyError", "ConnectionError"} }

Times == 1..MaxTime

\* The marker looked for in the body of the answer.
MARKER == "avito"

\* The bodies an answer can have, as the words of the text.
Bodies ==
    { <<"avito">>, <<"AVITO">>, <<"Welcome", "Avito">>, <<"captcha">>, <<>> }

\* response.text.lower()
LowerText(body) == [k \in DOMAIN body |-> Lower(body[k])]

\* What the network does to one probe: it answers (status, body, elapsed
\* time), session.get raises, or the session itself cannot be created (an
\* exception outside the try block of check_proxy).
Responses ==
    [kind : {"response"}, status : {HTTP_OK, 404}, body : Bodies,
     elapsed : Times]

Exceptions ==
    [kind : {"exception"}, classes : ExceptionClasses, msg : {"boom"}]

SessionErrors == [kind : {"session_error"}, msg : {"boom"}]

\* The far end never answers: the connection attempt, or the read of the
\* response, would wait for ever.
Silences == [kind : {"silent"}, phase : {"connect", "read"}]

NetBehaviours == Responses \cup Exceptions \cup SessionErrors \cup Silences

\* The behaviours the probes of a batch meet: one of each kind of ending
\* the dispatcher can tell apart (a success of each duration, a refusal, a
\* timeout raised at once, another exception, a session that cannot be
\* created, a silent far end).
PoolNetBehaviours ==
    { n \in NetBehaviours :
        \/ n.kind = "response" /\ n.status = HTTP_OK /\ n.body = <<"avito">>
        \/ n.kind = "response" /\ n.status # HTTP_OK
               /\ n.body = <<"captcha">> /\ n.elapsed = 1
        \/ n.kind = "exception" /\ n.classes \in {{}, {"Timeout"}}
        \/ n.kind = "session_error"
        \/ n.kind = "silent" /\ n.phase = "read" }

(* ----------------------------- check_proxy ---------------------------- *)

\* A failure outcome that also carries an elapsed time.
Failure_WithTime(proxy, proxy_type, error) ==
    [proxy |-> proxy, working |-> FALSE, type |-> proxy_type, error |-> error,
     time |-> 0]

\* The dict returned on every failure path.
Failure(proxy, proxy_type, error) ==
    [proxy |-> proxy, working |-> FALSE, type |-> proxy_type, error |-> error]

Return(v) == [kind |-> "return", value |-> v]

Raise(msg) == [kind |-> "raise", exc |-> "Exception", msg |-> msg]

\* The call never comes back.
Hang == [kind |-> "hang"]

\* session.get without a timeout: a silent far end is waited for.
SessionGet_NoTimeout(net) == net

\* session.get(TARGET_URL, timeout=timeout, ...): a far end that stays
\* silent past the timeout makes requests raise ConnectTimeout (a Timeout
\* and a ConnectionError) or ReadTimeout (a Timeout).
SessionGet(net) ==
    IF net.kind = "silent"
    THEN [kind |-> "exception",
          classes |-> IF net.phase = "connect"
                      THEN {"Timeout", "ConnectionError"} ELSE {"Timeout"},
          msg |-> "timed out"]
    ELSE net

\* f"HTTP {response.status_code} or invalid content"
BadStatusMessage(status) ==
    IF status = HTTP_OK THEN "HTTP 200 or invalid content"
    ELSE "HTTP 404 or invalid content"

\* f"Unsupported proxy type: {proxy_type}"
UnsupportedMessage(proxy_type) ==
    IF proxy_type = "ftp" THEN "Unsupported proxy type: ftp"
    ELSE "Unsupported proxy type"

\* The except chain of check_proxy: the first clause whose class the
\* exception is an instance of decides the error text.
ExceptChain_ConnectionFirst(classes, msg) ==
    IF "ConnectionError" \in classes THEN "Connection error"
    ELSE IF "Timeout" \in classes THEN "Timeout"
    ELSE IF "ProxyError" \in classes THEN "Proxy connection failed"
    ELSE msg

ExceptChain(classes, msg) ==
    IF "Timeout" \in classes THEN "Timeout"
    ELSE IF "ProxyError" \in classes THEN "Proxy connection failed"
    ELSE IF "ConnectionError" \in classes THEN "Connection error"
    ELSE msg

\* The test with the case of the body left as it is.
IsWorking_CaseSensitive(response) ==
    response.status = HTTP_OK /\ MARKER \in Range(response.body)

\* response.status_code == 200 and "avito" in response.text.lower()
IsWorking(response) ==
    response.status = HTTP_OK /\ MARKER \in Range(LowerText(response.body))

\* The type check that lets every type through to the request.
TypeSupported_Always(ptype) == TRUE

\* if proxy_type not in SUPPORTED_PROXY_TYPES: return ...  (negated)
TypeSupported(ptype) == ptype \in Range(SUPPORTED_PROXY_TYPES)

\* The body of the with-block once the session exists: how it ends.
ProbeRequest(proxy, proxy_type, net) ==
    LET ptype == Lower(proxy_type)
        got   == SessionGet(net)
    IN  IF ~TypeSupported(ptype)
        THEN Return(Failure(proxy, ptype, UnsupportedMessage(ptype)))
        ELSE IF got.kind = "silent"
        THEN Hang
        ELSE IF got.kind = "response"
        THEN IF IsWorking(got)
             THEN Return([proxy |-> proxy, working |-> TRUE,
                          time |-> got.elapsed, type |-> ptype,
                          status |-> got.status,
                          content_length |-> Len(got.body)])
             ELSE Return(Failure(proxy, ptype, BadStatusMessage(got.status)))
        ELSE Return(Failure(proxy, ptype, ExceptChain(got.classes, got.msg)))

\* The body of the with-block calls session.get unless the type check
\* returned first.
RequestSent(proxy_type) == TypeSupported(Lower(proxy_type))

\* A session closed only by the return of a working outcome.
SessionClosed_OnSuccessOnly(end) == end.kind = "return" /\ end.value.working

\* with requests.Session() as session: however the block ends (a return,
\* an exception), leaving it closes the session; a block that never ends
\* never leaves.
SessionClosed(end) == end.kind # "hang"

\* A call that ends before a session exists.
NoSession(end) ==
    [end |-> end, opened |-> FALSE, closed |-> FALSE, sent |-> FALSE]

\* One run of check_proxy(proxy, proxy_type, timeout) when the network
\* behaves as net: how the call ends (it returns, raises, or never ends),
\* whether it opened a session, whether it closed it, and whether it sent
\* a request through the proxy.
ProbeRun(proxy, proxy_type, net) ==
    IF proxy.form = "empty"
    THEN NoSession(Return(Failure(proxy, proxy_type, "Invalid proxy format")))
    ELSE IF proxy.form = "noport"
    THEN NoSession(Return(Failure(proxy, proxy_type,
                                  "Invalid proxy format (expected ip:port)")))
    ELSE IF ~validate_ip_address(proxy.ip) \/ ~validate_port(proxy.port)
    THEN NoSession(Return(Failure(proxy, proxy_type,
                                  "Invalid IP address or port")))
    ELSE IF net.kind = "session_error"
    THEN NoSession(Raise(net.msg))
    ELSE LET end == ProbeRequest(proxy, proxy_type, net)
         IN  [end |-> end, opened |-> TRUE, closed |-> SessionClosed(end),
              sent |-> RequestSent(proxy_type)]

\* What check_proxy returns, that it raises, or that it never ends.
check_proxy(proxy, proxy_type, net) == ProbeRun(proxy, proxy_type, net).end

(* ------------------------ save_working_proxies ------------------------ *)

\* key=lambda x: x.get("time", 999)
SortKey(x) == IF "time" \in DOMAIN x THEN x.time ELSE SORT_DEFAULT

\* One step of a sort that is not stable: x goes before the entries whose
\* key equals its own.
InsertByKey_Unstable(s, x) ==
    LET before == SelectSeq(s, LAMBDA y : SortKey(y) < SortKey(x))
        after  == SelectSeq(s, LAMBDA y : SortKey(y) >= SortKey(x))
    IN  before \o <<x>> \o after

\* One step of the stable sort: x goes behind every entry of the sorted
\* list s whose key is at most its own.
InsertByKey(s, x) ==
    LET before == SelectSeq(s, LAMBDA y : SortKey(y) <= SortKey(x))
        after  == SelectSeq(s, LAMBDA y : SortKey(y) > SortKey(x))
    IN  before \o <<x>> \o after

RECURSIVE SortByKey(_)
\* list.sort(key=...): stable, ascending.
SortByKey(s) ==
    IF s = <<>> THEN <<>>
    ELSE InsertByKey(SortByKey(SubSeq(s, 1, Len(s) - 1)), s[Len(s)])

\* working = [r for r in results if r["working"]]; working.sort(...)
WorkingOf(res) == SortByKey(SelectSeq(res, LAMBDA r : r.working))

\* results.sort(...): the sort applied to the caller's list.
ResultsAfterSave_Sorted(res) == SortByKey(res)

\* The caller's list after save_working_proxies: the comprehension of line
\* 302 builds a new list and line 303 sorts that one; results itself is
\* only read.
ResultsAfterSave(res) == res

\* if not results: return []   -- the guard left out.
SaveReturnsEarly_Never(res) == FALSE

\* if not results: return []
SaveReturnsEarly(res) == res = <<>>

\* len(working)/len(results)*100, in whole percent.
Percent(part, whole) == (part * 100) \div whole

(* ------------------------------- state -------------------------------- *)

VARIABLES
    entry,            \* the function the caller invoked
    pc,               \* where the calling (main) thread is
    proxies,          \* the descriptor list [(proxy, type)]
    arg_max_workers,  \* max_workers as the caller passed it
    max_workers,      \* max_workers after line 247 (the pool size)
    total,            \* total = len(proxies)
    completed,        \* the completed counter
    results,          \* the results list
    printed,          \* the progress lines printed so far
    task,             \* per descriptor: new, queued, running or done
    future,           \* per descriptor: the future's result or exception
    net,              \* per running probe: what the network does to it
    finishOrder,      \* the descriptors in the order their probes finished
    snapshot,         \* as_completed: futures found finished when it started
    waiterQ,          \* as_completed: futures finished since, oldest first
    yielded,          \* the futures as_completed has yielded, in order
    cap_returned,     \* check_all_proxies has returned its results
    working,          \* what save_working_proxies returned
    saved,            \* the output file was written completely
    divisors,         \* every len(results) a ratio was divided by
    reported,         \* the final statistics main printed, if it did
    error,            \* the exception that escaped to the caller, if any
    call,             \* a direct call of check_proxy: its arguments
    ret,              \* a direct call of check_proxy: what came back
    pool,             \* the ThreadPoolExecutor: none, open or shut
    console,          \* the encoding of the stream print() writes to
    session_uses,     \* <<session, probe>>: the probe worked on the session
    open_sessions,    \* the sessions opened and not closed
    sent,             \* the probes that sent a request through their proxy
    lines,            \* load_proxies: the lines of the file
    line_num          \* load_proxies: the lines read so far

vars == <<entry, pc, proxies, arg_max_workers, max_workers, total, completed,
          results, printed, task, future, net, finishOrder, snapshot,
          waiterQ, yielded, cap_returned, working, saved, divisors, reported,
          error, call, ret, pool, console, session_uses, open_sessions, sent,
          lines, line_num>>

poolVars == <<task, future, net, finishOrder, snapshot, waiterQ, yielded>>

loopVars == <<total, completed, results, printed>>

reportVars == <<working, saved, divisors, reported>>

probeVars == <<call, ret>>

sessVars == <<session_uses, open_sessions, sent>>

loadVars == <<lines, line_num>>

\* The encodings of the console: "✓" and "✗" can be written in the first
\* and not in the second, the Cyrillic messages in both.
Consoles == {"utf-8", "cp1251"}

\* print(f"{progress} {status} ..."): the line holds "✓" or "✗", and print
\* raises UnicodeEncodeError when the stream cannot encode it.
PrintSucceeds == console = "utf-8"

\* One session object shared by every call.
NewSession_Shared(uses) == 1

\* requests.Session(): each call builds a new object.
NewSession(uses) == 1 + Cardinality({u[1] : u \in uses})

\* The session probe i works on.
SessionOf(i) == CHOOSE sid \in {u[1] : u \in session_uses} :
                    <<sid, i>> \in session_uses

Pending == [kind |-> "pending"]

NoCall == [made |-> FALSE]

NoNet == [kind |-> "none"]

NoError == "none"

NoReport == [made |-> FALSE]

\* A list a direct caller of check_all_proxies passes, with a type that is
\* not supported.
UnsupportedDescriptors == << [proxy |-> ProxyStr(1), type |-> "ftp"] >>

\* The values of max_workers a direct caller of check_all_proxies passes.
RequestedWorkers == {0, 1, 2, 1000}

\* An outcome as check_proxy builds it: c = 0 a timeout, c > 0 a success
\* that took c.
SampleOutcome(k, c) ==
    IF c = 0 THEN Failure(ProxyStr(k), TypeOf(k), "Timeout")
    ELSE [proxy |-> ProxyStr(k), working |-> TRUE, time |-> c,
          type |-> TypeOf(k), status |-> HTTP_OK, content_length |-> 1]

\* The result lists a direct caller hands to save_working_proxies.
SaveInputs ==
    UNION { { [k \in 1..n |-> SampleOutcome(k, f[k])] :
              f \in [1..n -> 0..MaxTime] } : n \in 0..MaxProxies }

Running == {i \in DOMAIN task : task[i] = "running"}

Init ==
    /\ entry \in {"main", "check_all_proxies", "save_working_proxies"}
    /\ pc = entry
    /\ IF entry = "save_working_proxies"
       THEN /\ proxies = <<>>
            /\ results \in SaveInputs
            /\ arg_max_workers = DEFAULT_MAX_WORKERS
       ELSE /\ proxies \in {Descriptors(n) : n \in 0..MaxProxies} \cup
                       (IF entry = "main" THEN {} ELSE {UnsupportedDescriptors})
            /\ results = <<>>
            /\ arg_max_workers \in
                   IF entry = "main" THEN {DEFAULT_MAX_WORKERS}
                   ELSE RequestedWorkers
    /\ max_workers = 0
    /\ total = 0
    /\ completed = 0
    /\ printed = <<>>
    /\ task = [i \in 1..Len(proxies) |-> "new"]
    /\ future = [i \in 1..Len(proxies) |-> Pending]
    /\ net = [i \in 1..Len(proxies) |-> NoNet]
    /\ finishOrder = <<>>
    /\ snapshot = {}
    /\ waiterQ = <<>>
    /\ yielded = <<>>
    /\ cap_returned = FALSE
    /\ working = <<>>
    /\ saved = FALSE
    /\ divisors = {}
    /\ reported = NoReport
    /\ error = NoError
    /\ call = NoCall
    /\ ret = Pending
    /\ pool = "none"
    /\ console \in Consoles
    /\ session_uses = {}
    /\ open_sessions = {}
    /\ sent = {}
    /\ lines = <<>>
    /\ line_num = 0

(* ------------------------- check_all_proxies -------------------------- *)

\* min(max_workers, 50): the descriptor count left out.
EffectiveWorkers_NoLen(requested, n) ==
    IF requested <= WORKER_CEILING THEN requested ELSE WORKER_CEILING

\* max_workers = min(max_workers, len(proxies), 50)
EffectiveWorkers(requested, n) == Min3(requested, n, WORKER_CEILING)

\* ThreadPoolExecutor(max_workers): at most max_workers threads, each
\* running one task at a time.
PoolHasFreeWorker == Cardinality(Running) < max_workers

\* An except clause that lets the exception through.
DispatcherCatches_Nothing(exc) == FALSE

\* except Exception as e
DispatcherCatches(exc) == exc = "Exception"

\* Where the caller of check_all_proxies goes on.
AfterCheckAll == IF entry = "main" THEN "main_results" ELSE "done"

\* if not proxies: return []   -- the guard left out.
CheckAllReturnsEarly_Never(list) == FALSE

\* if not proxies: ... return []
CheckAllReturnsEarly(list) == list = <<>>

\* Lines 242-255: the empty-list guard, the worker count, the pool.
CheckAllEnter ==
    /\ pc = "check_all_proxies"
    /\ IF CheckAllReturnsEarly(proxies)
       THEN /\ results' = <<>>
            /\ cap_returned' = TRUE
            /\ pc' = AfterCheckAll
            /\ UNCHANGED <<max_workers, total, completed, error, pool>>
       ELSE /\ max_workers' = EffectiveWorkers(arg_max_workers, Len(proxies))
            /\ results' = <<>>
            /\ total' = Len(proxies)
            /\ completed' = 0
            /\ cap_returned' = FALSE
            /\ IF max_workers' <= 0
               THEN \* ThreadPoolExecutor: max_workers must be greater than 0
                    /\ error' = "ValueError"
                    /\ pc' = "raised"
                    /\ pool' = pool
               ELSE /\ error' = error
                    /\ pc' = "submit"
                    /\ pool' = "open"
    /\ UNCHANGED <<entry, console, proxies, arg_max_workers, printed>>
    /\ UNCHANGED <<poolVars, reportVars, probeVars, sessVars, loadVars>>

\* Lines 256-259: executor.submit for the next descriptor of the list.
Submit ==
    /\ pc = "submit"
    /\ LET k == CHOOSE i \in DOMAIN task :
                    /\ task[i] = "new"
                    /\ \A j \in 1..(i - 1) : task[j] # "new"
       IN  /\ task' = [task EXCEPT ![k] = "queued"]
           /\ pc' = IF k = Len(proxies) THEN "as_completed" ELSE "submit"
    /\ UNCHANGED <<entry, console, pool, proxies, arg_max_workers,
                   max_workers, cap_returned, error, future, net, finishOrder,
                   snapshot, waiterQ, yielded>>
    /\ UNCHANGED <<loopVars, reportVars, probeVars, sessVars, loadVars>>

\* A pool thread takes the oldest queued task and starts check_proxy; what
\* the network will do to this probe is the environment's choice.
StartTask(i) ==
    /\ task[i] = "queued"
    /\ \A j \in 1..(i - 1) : task[j] # "queued"
    /\ PoolHasFreeWorker
    /\ task' = [task EXCEPT ![i] = "running"]
    /\ \E n \in PoolNetBehaviours :
           /\ net' = [net EXCEPT ![i] = n]
           /\ IF ProbeRun(proxies[i].proxy, proxies[i].type, n).opened
              THEN LET sid == NewSession(session_uses)
                   IN  /\ session_uses' = session_uses \cup {<<sid, i>>}
                       /\ open_sessions' = open_sessions \cup {sid}
              ELSE UNCHANGED <<session_uses, open_sessions>>
    /\ sent' = sent
    /\ UNCHANGED <<entry, console, pool, pc, proxies, arg_max_workers,
                   max_workers, cap_returned, error, future, finishOrder,
                   snapshot, waiterQ, yielded>>
    /\ UNCHANGED <<loopVars, reportVars, probeVars, loadVars>>

\* check_proxy ends in a pool thread: the future gets its result or its
\* exception, and a waiter as_completed has installed is told.
FinishTask(i) ==
    /\ task[i] = "running"
    /\ LET run == ProbeRun(proxies[i].proxy, proxies[i].type, net[i])
       IN  /\ run.end.kind # "hang"
           /\ future' = [future EXCEPT ![i] = run.end]
           /\ open_sessions' = IF run.opened /\ run.closed
                               THEN open_sessions \ {SessionOf(i)}
                               ELSE open_sessions
           /\ sent' = IF run.sent THEN sent \cup {i} ELSE sent
    /\ session_uses' = session_uses
    /\ task' = [task EXCEPT ![i] = "done"]
    /\ net' = [net EXCEPT ![i] = NoNet]
    /\ finishOrder' = Append(finishOrder, i)
    /\ waiterQ' = IF pc = "collect" THEN Append(waiterQ, i) ELSE waiterQ
    /\ UNCHANGED <<entry, console, pool, pc, proxies, arg_max_workers,
                   max_workers, cap_returned, error, snapshot, yielded>>
    /\ UNCHANGED <<loopVars, reportVars, probeVars, loadVars>>

\* Line 261, the first next() of as_completed(futures): the futures that
\* are finished by now form a set; a waiter is installed on the others.
AsCompleted ==
    /\ pc = "as_completed"
    /\ snapshot' = {i \in DOMAIN task : task[i] = "done"}
    /\ waiterQ' = <<>>
    /\ pc' = "collect"
    /\ UNCHANGED <<entry, console, pool, proxies, arg_max_workers,
                   max_workers, cap_returned, error, task, future, net,
                   finishOrder, yielded>>
    /\ UNCHANGED <<loopVars, reportVars, probeVars, sessVars, loadVars>>

\* Lines 262-279, the loop body for the future of descriptor i.
LoopBody(i) ==
    /\ yielded' = Append(yielded, i)
    /\ IF future[i].kind = "return"
       THEN /\ results' = Append(results, future[i].value)
            /\ IF PrintSucceeds
               THEN /\ completed' = completed + 1
                    /\ printed' = Append(printed,
                           [count |-> completed + 1, total |-> total,
                            proxy |-> future[i].value.proxy,
                            ok |-> future[i].value.working])
               ELSE \* print raises inside the try: the except clause
                    \* counts the future a second time
                    /\ completed' = completed + 2
                    /\ printed' = printed
            /\ UNCHANGED <<pc, error>>
       ELSE IF DispatcherCatches(future[i].exc)
       THEN /\ completed' = completed + 1
            /\ UNCHANGED <<results, printed, pc, error>>
       ELSE /\ error' = future[i].exc
            /\ pc' = "raised"
            /\ UNCHANGED <<results, printed, completed>>

\* as_completed yields the next future and the loop body runs on it: first
\* the futures of the snapshot, in the iteration order of a set, then the
\* others in the order they finish.
Collect ==
    /\ pc = "collect"
    /\ IF snapshot # {}
       THEN \E i \in snapshot :
                /\ snapshot' = snapshot \ {i}
                /\ waiterQ' = waiterQ
                /\ LoopBody(i)
       ELSE /\ waiterQ # <<>>
            /\ snapshot' = snapshot
            /\ waiterQ' = Tail(waiterQ)
            /\ LoopBody(Head(waiterQ))
    /\ UNCHANGED <<entry, console, pool, proxies, arg_max_workers,
                   max_workers, total, cap_returned, task, future, net,
                   finishOrder>>
    /\ UNCHANGED <<reportVars, probeVars, sessVars, loadVars>>

\* A loop that stops at the first future, in a pool that is not waited for.
PoolJoined_FirstOnly == Len(yielded) >= 1

\* The for loop ends when as_completed has yielded every future, and
\* leaving the with-block shuts the pool down, which waits for its threads.
PoolJoined ==
    /\ Len(yielded) = total
    /\ \A i \in DOMAIN task : task[i] = "done"

\* Lines 279-281: the loop is over, the pool is shut down (it waits for its
\* threads), and the results are returned.
ReturnResults ==
    /\ pc = "collect"
    /\ PoolJoined
    /\ pool' = "shut"
    /\ cap_returned' = TRUE
    /\ pc' = AfterCheckAll
    /\ UNCHANGED <<entry, console, proxies, arg_max_workers, max_workers,
                   error>>
    /\ UNCHANGED <<loopVars, poolVars, reportVars, probeVars, sessVars,
                   loadVars>>

(* -------------------- main and save_working_proxies ------------------- *)

\* main's "if not proxies: return" and "if not results: return".
IsEmptyList(list) == list = <<>>

\* Lines 349-357: the list is loaded; an empty one ends the run.
MainLoad ==
    /\ pc = "main"
    /\ pc' = IF IsEmptyList(proxies) THEN "done" ELSE "check_all_proxies"
    /\ UNCHANGED <<entry, console, pool, proxies, arg_max_workers,
                   max_workers, cap_returned, error>>
    /\ UNCHANGED <<loopVars, poolVars, reportVars, probeVars, sessVars,
                   loadVars>>

\* Lines 359-361: no results, no report.
MainResults ==
    /\ pc = "main_results"
    /\ pc' = IF IsEmptyList(results) THEN "done" ELSE "save_working_proxies"
    /\ UNCHANGED <<entry, console, pool, proxies, arg_max_workers,
                   max_workers, cap_returned, error>>
    /\ UNCHANGED <<loopVars, poolVars, reportVars, probeVars, sessVars,
                   loadVars>>

\* Lines 298-341.  The file may fail to open, or a write may fail after the
\* header (with its ratio) was formatted; either is caught and logged.
SaveWorkingProxies ==
    /\ pc = "save_working_proxies"
    /\ IF SaveReturnsEarly(results)
       THEN /\ working' = <<>>
            /\ UNCHANGED <<saved, divisors>>
       ELSE /\ working' = WorkingOf(results)
            /\ \E io \in {"ok", "open_fails", "write_fails"} :
                   /\ divisors' = IF io = "open_fails" THEN divisors
                                  ELSE divisors \cup {Len(results)}
                   /\ saved' = (io = "ok" /\ Len(results) # 0)
    /\ pc' = IF entry = "main" THEN "stats" ELSE "done"
    /\ UNCHANGED <<entry, console, pool, proxies, arg_max_workers,
                   max_workers, cap_returned, error, reported>>
    /\ results' = ResultsAfterSave(results)
    /\ UNCHANGED <<total, completed, printed>>
    /\ UNCHANGED <<poolVars, probeVars, sessVars, loadVars>>

\* Lines 366-385: the final statistics.
MainStats ==
    /\ pc = "stats"
    /\ divisors' = divisors \cup {Len(results)}
    /\ IF Len(results) = 0
       THEN /\ error' = "ZeroDivisionError"
            /\ pc' = "raised"
            /\ reported' = reported
       ELSE /\ reported' = [made |-> TRUE, total |-> Len(results),
                            working |-> Len(working),
                            percent |-> Percent(Len(working), Len(results))]
            /\ pc' = "done"
            /\ error' = error
    /\ UNCHANGED <<entry, console, pool, proxies, arg_max_workers,
                   max_workers, cap_returned, working, saved>>
    /\ UNCHANGED <<loopVars, poolVars, probeVars, sessVars, loadVars>>

(* --------------------------- specifications --------------------------- *)

MainThread ==
    \/ MainLoad
    \/ CheckAllEnter
    \/ Submit
    \/ AsCompleted
    \/ Collect
    \/ ReturnResults
    \/ MainResults
    \/ SaveWorkingProxies
    \/ MainStats

Worker ==
    \/ \E i \in DOMAIN task : StartTask(i)
    \/ \E i \in DOMAIN task : FinishTask(i)

\* check_all_proxies called on its own with a small pool, on a console
\* that prints every progress line.
DispatcherInit ==
    /\ Init
    /\ entry = "check_all_proxies"
    /\ PrintSucceeds
    /\ arg_max_workers <= 2

DispatcherThread ==
    \/ CheckAllEnter
    \/ Submit
    \/ AsCompleted
    \/ Collect
    \/ ReturnResults

DispatcherNext == DispatcherThread \/ Worker

\* The interpreter schedules every thread that can run: the calling thread
\* and the pool's threads each keep taking steps.
DispatcherFairSpec ==
    /\ DispatcherInit
    /\ [][DispatcherNext]_vars
    /\ WF_vars(DispatcherThread)
    /\ WF_vars(Worker)

(* ------------------- check_proxy called on its own -------------------- *)

\* The proxy strings a direct caller passes.
ProbeProxies ==
    { ProxyStr(1),
      [form |-> "empty", ip |-> 0, port |-> NonNumericPort],
      [form |-> "noport", ip |-> 1, port |-> NonNumericPort],
      [form |-> "ip:port", ip |-> 0, port |-> Port(8080)],
      [form |-> "ip:port", ip |-> 1, port |-> Port(0)],
      [form |-> "ip:port", ip |-> 1, port |-> Port(MAX_PORT + 1)],
      [form |-> "ip:port", ip |-> 1, port |-> NonNumericPort] }

ProbeTypes == Range(SUPPORTED_PROXY_TYPES) \cup {"SOCKS5", "HTTP", "ftp", "FTP"}

ProbeInit ==
    /\ entry = "check_proxy"
    /\ pc = "check_proxy"
    /\ call \in [made : {TRUE}, proxy : ProbeProxies, type : ProbeTypes,
                 net : NetBehaviours]
    /\ ret = Pending
    /\ proxies = <<>>
    /\ results = <<>>
    /\ arg_max_workers = DEFAULT_MAX_WORKERS
    /\ max_workers = 0
    /\ total = 0
    /\ completed = 0
    /\ printed = <<>>
    /\ task = <<>>
    /\ future = <<>>
    /\ net = <<>>
    /\ finishOrder = <<>>
    /\ snapshot = {}
    /\ waiterQ = <<>>
    /\ yielded = <<>>
    /\ cap_returned = FALSE
    /\ working = <<>>
    /\ saved = FALSE
    /\ divisors = {}
    /\ reported = NoReport
    /\ error = NoError
    /\ pool = "none"
    /\ console = "utf-8"
    /\ session_uses = {}
    /\ open_sessions = {}
    /\ sent = {}
    /\ lines = <<>>
    /\ line_num = 0

\* check_proxy runs to its end.
CallCheckProxy ==
    /\ pc = "check_proxy"
    /\ LET run == ProbeRun(call.proxy, call.type, call.net)
           sid == NewSession(session_uses)
       IN  /\ run.end.kind # "hang"
           /\ ret' = run.end
           /\ session_uses' = IF run.opened THEN session_uses \cup {<<sid, 0>>}
                              ELSE session_uses
           /\ open_sessions' = IF run.opened /\ ~run.closed
                               THEN open_sessions \cup {sid}
                               ELSE open_sessions
           /\ sent' = IF run.sent THEN sent \cup {0} ELSE sent
    /\ pc' = "done"
    /\ UNCHANGED <<entry, console, pool, proxies, arg_max_workers,
                   max_workers, cap_returned, error, call>>
    /\ UNCHANGED <<loopVars, poolVars, reportVars, loadVars>>

ProbeNext == CallCheckProxy

ProbeSpec == ProbeInit /\ [][ProbeNext]_vars

(* ------------------ every entry point but load_proxies ---------------- *)

\* main, check_all_proxies, save_working_proxies or check_proxy is called.
Next == MainThread \/ Worker \/ CallCheckProxy

Spec == (Init \/ ProbeInit) /\ [][Next]_vars

(* ---------------------------- load_proxies ---------------------------- *)

MaxLines == 2

\* A line of the file that is not blank and not a comment, as the parts
\* line.split(":") cuts it into: n parts, the first an address (0: not an
\* IP address), the second a port, the third a type name; parts that the
\* line does not have are empty.
Entry(n, ip, port, third) ==
    [kind |-> "entry", n |-> n, ip |-> ip, port |-> port, third |-> third]

\* A line that is empty once stripped, and a line that starts with "#".
BlankLine ==
    [kind |-> "blank", n |-> 0, ip |-> 0, port |-> NonNumericPort, third |-> ""]

CommentLine ==
    [kind |-> "comment", n |-> 0, ip |-> 0, port |-> NonNumericPort,
     third |-> ""]

\* The third parts met: a name in either case, a name that is not
\* supported, an empty part, a name behind a blank.
ThirdParts == {"socks5", "SOCKS5", "HTTPS", "ftp", "", " socks5"}

\* The lines a proxy file holds.
RawLines ==
    {BlankLine, CommentLine, Entry(1, 1, NonNumericPort, "")}
    \cup { Entry(2, 1, port, "") :
              port \in {Port(MIN_PORT), Port(8080), Port(MAX_PORT), Port(0),
                        Port(MAX_PORT + 1), Port(999999), NonNumericPort} }
    \cup { Entry(2, 0, Port(8080), "") }
    \cup { Entry(3, 1, port, third) :
              port \in {Port(8080), Port(999999)}, third \in ThirdParts }
    \cup { Entry(4, 1, Port(8080), third) : third \in {"SOCKS5", "ftp"} }

\* The files read: up to MaxLines lines.
LoadInputs == UNION { [1..n -> RawLines] : n \in 0..MaxLines }

\* The type of a line with the fallback to "http" left out.
LoadType_NoFallback(n, third) == IF n > 2 THEN Lower(third) ELSE "http"

\* proxy_type = parts[2].lower() if len(parts) > 2 else "http", and "http"
\* again when that is not a supported type.
LoadType(n, third) ==
    LET proxy_type == IF n > 2 THEN Lower(third) ELSE "http"
    IN  IF proxy_type \notin Range(SUPPORTED_PROXY_TYPES) THEN "http"
        ELSE proxy_type

\* The body of the loop of load_proxies for one line: the descriptors it
\* appends to the list (one or none).
ParseLine(line) ==
    IF line.kind # "entry" THEN <<>>
    ELSE IF line.n < 2 THEN <<>>
    ELSE IF ~validate_ip_address(line.ip) THEN <<>>
    ELSE IF ~validate_port(line.port) THEN <<>>
    ELSE << [proxy |-> [form |-> "ip:port", ip |-> line.ip,
                        port |-> line.port],
             type |-> LoadType(line.n, line.third)] >>

LoadInit ==
    /\ entry = "load_proxies"
    /\ pc = "load_proxies"
    /\ lines \in LoadInputs
    /\ line_num = 0
    /\ proxies = <<>>
    /\ call = NoCall
    /\ ret = Pending
    /\ results = <<>>
    /\ arg_max_workers = DEFAULT_MAX_WORKERS
    /\ max_workers = 0
    /\ total = 0
    /\ completed = 0
    /\ printed = <<>>
    /\ task = <<>>
    /\ future = <<>>
    /\ net = <<>>
    /\ finishOrder = <<>>
    /\ snapshot = {}
    /\ waiterQ = <<>>
    /\ yielded = <<>>
    /\ cap_returned = FALSE
    /\ working = <<>>
    /\ saved = FALSE
    /\ divisors = {}
    /\ reported = NoReport
    /\ error = NoError
    /\ pool = "none"
    /\ console = "utf-8"
    /\ session_uses = {}
    /\ open_sessions = {}
    /\ sent = {}

\* Lines 180-215: the next line of the file is read and parsed.
LoadLine ==
    /\ pc = "load_proxies"
    /\ line_num < Len(lines)
    /\ line_num' = line_num + 1
    /\ proxies' = proxies \o ParseLine(lines[line_num + 1])
    /\ UNCHANGED <<entry, pc, console, pool, arg_max_workers, max_workers,
                   cap_returned, error, lines>>
    /\ UNCHANGED <<loopVars, poolVars, reportVars, probeVars, sessVars>>

\* Line 223: the file is read to its end and the list is returned.
LoadReturn ==
    /\ pc = "load_proxies"
    /\ line_num = Len(lines)
    /\ pc' = "done"
    /\ UNCHANGED <<entry, console, pool, proxies, arg_max_workers,
                   max_workers, cap_returned, error>>
    /\ UNCHANGED <<loopVars, poolVars, reportVars, probeVars, sessVars,
                   loadVars>>

LoadNext == LoadLine \/ LoadReturn

LoadSpec == LoadInit /\ [][LoadNext]_vars

(* ------------------------------- claims ------------------------------- *)

\* The place of x in the sequence s (x occurs in s).
PlaceIn(s, x) == CHOOSE k \in 1..Len(s) : s[k] = x

\* The places of results that hold an outcome of descriptor i.
OutcomesOf(i) == {k \in 1..Len(results) : results[k].proxy = proxies[i].proxy}

\* The smallest of the requested worker count, the descriptor count and 50.
SmallestOfThree ==
    CHOOSE m \in {arg_max_workers, Len(proxies), WORKER_CEILING} :
        \A x \in {arg_max_workers, Len(proxies), WORKER_CEILING} : m <= x

\* C1: when check_all_proxies returns, the result list has exactly as many
\* outcomes as descriptors were submitted, also in runs where probe tasks
\* raise instead of returning.
C1_OneOutcomePerDescriptor ==
    cap_returned => Len(results) = Len(proxies)

\* C2: when a probe task raised, the results returned hold one outcome for
\* its descriptor, with working = False and the text of the exception as
\* the error (the 'unexpected' reason).
C2_RaisedTaskGetsOutcome ==
    cap_returned =>
        \A i \in DOMAIN future :
            future[i].kind = "raise" =>
                \E k \in OutcomesOf(i) :
                    /\ ~results[k].working
                    /\ results[k].error = future[i].msg

\* C3: a probe that fails or raises never aborts the batch.  No exception
\* escapes check_all_proxies because of a probe (the only one that escapes
\* is the pool's refusal of a worker count of 0, before any submission),
\* and when it returns every probe has finished and the outcome of every
\* probe that returned one is in the results exactly once.
C3_SiblingsSurvive ==
    /\ error # NoError =>
           /\ error = "ValueError"
           /\ \A i \in DOMAIN task : task[i] = "new"
    /\ cap_returned =>
           \A i \in DOMAIN task :
               /\ task[i] = "done"
               /\ future[i].kind = "return" =>
                      /\ Cardinality(OutcomesOf(i)) = 1
                      /\ \A k \in OutcomesOf(i) : results[k] = future[i].value

\* C3 witness: the first probe to finish raised, the second returned an
\* outcome, and check_all_proxies returned with that outcome.
C3_Witness ==
    /\ cap_returned
    /\ Len(finishOrder) = 2
    /\ future[finishOrder[1]].kind = "raise"
    /\ future[finishOrder[2]].kind = "return"
    /\ results = <<future[finishOrder[2]].value>>

C5_CompletionOrder ==
    entry \in {"main", "check_all_proxies"} =>
        \A a, b \in 1..Len(results) :
            a < b => PlaceIn(finishOrder, results[a].proxy.ip)
                         < PlaceIn(finishOrder, results[b].proxy.ip)

\* check_all_proxies was given a non-empty list by main and main has ended.
MainEndedAfterBatch == entry = "main" /\ pc = "done" /\ proxies # <<>>

\* C6: for a non-empty list of valid descriptors main always gets to the
\* report: when it ends, save_working_proxies has run and the final
\* statistics were printed, also when no probe succeeded.
C6_ReportEmitted ==
    MainEndedAfterBatch => reported.made

\* Descriptor i is in the pool's queue; a pool thread has taken it.
Queued(i) == i \in DOMAIN task /\ task[i] = "queued"

Started(i) == i \in DOMAIN task /\ task[i] \in {"running", "done"}

\* C7: a probe whose request meets a far end that stays silent past the
\* timeout ends with working = False and the error "Timeout"; its pool
\* thread is free again, so every queued descriptor is eventually started.
C7_TimeoutFreesWorker ==
    /\ [][\A i \in DOMAIN task :
              (task[i] = "running" /\ net[i].kind = "silent"
                   /\ task'[i] = "done" /\ i \in sent')
              => future'[i] = Return(Failure(proxies[i].proxy,
                                             proxies[i].type, "Timeout"))]_vars
    /\ \A i \in 1..MaxProxies : Queued(i) ~> Started(i)

\* C7 witness: a pool of one thread; the first probe ended in a timeout
\* and the second, which was queued behind it, is running.
C7_Witness ==
    /\ max_workers = 1
    /\ Len(proxies) = 2
    /\ task = <<"done", "running">>
    /\ future[1] = Return(Failure(proxies[1].proxy, proxies[1].type, "Timeout"))

\* save_working_proxies has returned.
SaveReturned ==
    \/ pc = "stats"
    \/ pc = "done" /\ entry = "save_working_proxies"
    \/ reported.made

\* C8: the working list holds exactly the outcomes with working = True, in
\* non-decreasing order of time, and outcomes of equal time in the order
\* they have in the results.
C8_WorkingSorted ==
    SaveReturned =>
        /\ Range(working) = {r \in Range(results) : r.working}
        /\ Len(working) = Cardinality({k \in 1..Len(results) : results[k].working})
        /\ \A a, b \in 1..Len(working) :
               a < b =>
                   /\ working[a].time <= working[b].time
                   /\ working[a].time = working[b].time =>
                          PlaceIn(results, working[a]) < PlaceIn(results, working[b])

\* C8 witness: two successes, the slower one first in the results, and a
\* failure-free working list with the faster one first.
C8_Witness ==
    /\ SaveReturned
    /\ Len(results) = 2
    /\ Len(working) = 2
    /\ results[1].working /\ results[2].working
    /\ results[1].time > results[2].time
    /\ working = <<results[2], results[1]>>

\* C9: no success ratio is ever divided by a total of zero: neither
\* save_working_proxies nor main fails with a division by zero on an empty
\* outcome list.
C9_NoZeroTotal ==
    /\ 0 \notin divisors
    /\ error # "ZeroDivisionError"

\* C9 witness: save_working_proxies was called with an empty list and has
\* returned.
C9_Witness ==
    /\ entry = "save_working_proxies"
    /\ results = <<>>
    /\ pc = "done"
    /\ working = <<>>

\* The direct call of check_proxy got as far as session.get and it raised,
\* at once or by the timeout.
RequestRaised ==
    /\ pc = "done"
    /\ call.made
    /\ call.net.kind \in {"exception", "silent"}
    /\ call.proxy = ProxyStr(1)
    /\ Lower(call.type) \in Range(SUPPORTED_PROXY_TYPES)

\* The classes of the exception session.get raised in the direct call.
RaisedClasses ==
    IF call.net.kind = "silent"
    THEN (IF call.net.phase = "connect"
          THEN {"Timeout", "ConnectionError"} ELSE {"Timeout"})
    ELSE call.net.classes

\* C10: a failed probe carries exactly one failure reason, by precedence:
\* a timeout is "Timeout" whatever else it is, then a proxy error is "Proxy
\* connection failed" even though it is a connection error, then a
\* connection error, then the text of the exception.
C10_FailurePrecedence ==
    /\ (pc = "done" /\ ret.kind = "return" /\ ~ret.value.working)
           => "error" \in DOMAIN ret.value
    /\ RequestRaised =>
           /\ ret.kind = "return"
           /\ ~ret.value.working
           /\ "Timeout" \in RaisedClasses => ret.value.error = "Timeout"
           /\ ("ProxyError" \in RaisedClasses /\ "Timeout" \notin RaisedClasses)
                  => ret.value.error = "Proxy connection failed"
           /\ ("ConnectionError" \in RaisedClasses
                   /\ RaisedClasses \cap {"Timeout", "ProxyError"} = {})
                  => ret.value.error = "Connection error"
           /\ RaisedClasses = {} => ret.value.error = call.net.msg

\* C10 witness: session.get raised an exception that is a Timeout and a
\* ConnectionError, and the outcome says "Timeout".
C10_Witness ==
    /\ RequestRaised
    /\ call.net.kind = "exception"
    /\ call.net.classes = {"Timeout", "ConnectionError"}
    /\ ret.value.error = "Timeout"

\* The proxy string passes the checks made before the session is opened.
WellFormed(proxy) ==
    /\ proxy.form = "ip:port"
    /\ validate_ip_address(proxy.ip)
    /\ validate_port(proxy.port)

\* The direct call got as far as a response from the target.
Answered ==
    /\ call.made
    /\ WellFormed(call.proxy)
    /\ Lower(call.type) \in Range(SUPPORTED_PROXY_TYPES)
    /\ call.net.kind = "response"

\* The spellings of the marker, in any case, that the bodies hold.
MarkerSpellings == {"avito", "Avito", "AVITO"}

\* The body of the answer holds the marker in some case.
BodyHasMarker ==
    \E k \in DOMAIN call.net.body : call.net.body[k] \in MarkerSpellings

\* C11: an outcome returned by check_proxy has working = True if and only if
\* a response was received with status 200 and a body that holds the marker
\* in any case; a response with another status or without the marker gives
\* working = False with the "HTTP <status> or invalid content" error.
C11_SuccessIffOkAndMarker ==
    (entry = "check_proxy" /\ pc = "done" /\ ret.kind = "return") =>
        LET good == Answered /\ call.net.status = HTTP_OK /\ BodyHasMarker
        IN  /\ ret.value.working <=> good
            /\ (Answered /\ ~good) =>
                   /\ ~ret.value.working
                   /\ ret.value.error = BadStatusMessage(call.net.status)

C11_Witness ==
    /\ entry = "check_proxy" /\ pc = "done" /\ ret.kind = "return"
    /\ Answered
    /\ call.net.status = HTTP_OK
    /\ call.net.body = <<"Welcome", "Avito">>
    /\ ret.value.working

\* The entry has no port field, or a port that is not an integer of
\* 1..65535.
BadPort(line) ==
    /\ line.kind = "entry"
    /\ \/ line.n < 2
       \/ ~line.port.isint
       \/ line.port.val < 1
       \/ line.port.val > 65535

\* The lines read so far that are entries with an IP address and without a
\* bad port, in the order of the file.
AcceptedLines ==
    SelectSeq(SubSeq(lines, 1, line_num),
              LAMBDA l : l.kind = "entry" /\ l.ip > 0 /\ ~BadPort(l))

\* C12: load_proxies rejects every entry that has no port field or whose
\* port is not an integer of 1..65535: the list holds no descriptor of such
\* an entry, and it holds a descriptor, in file order, for each of the other
\* entries with an IP address, whatever was rejected before them.
C12_BadPortRejected ==
    entry = "load_proxies" =>
        /\ Len(proxies) = Len(AcceptedLines)
        /\ \A k \in 1..Len(proxies) :
               /\ proxies[k].proxy.ip = AcceptedLines[k].ip
               /\ proxies[k].proxy.port = AcceptedLines[k].port

\* C12 witness: a port of 999999 on the first line, a good entry on the
\* second; the list returned holds the second only.
C12_Witness ==
    /\ entry = "load_proxies" /\ pc = "done"
    /\ Len(lines) = 2
    /\ lines[1] = Entry(2, 1, Port(999999), "")
    /\ lines[2] = Entry(2, 1, Port(8080), "")
    /\ Len(proxies) = 1
    /\ proxies[1].proxy.port = Port(8080)

\* The supported protocol a third part names, in either case.
NamedProtocol(third) ==
    CASE third \in {"socks5", "SOCKS5"} -> "socks5"
      [] third \in {"https", "HTTPS"}   -> "https"
      [] third \in {"socks4", "SOCKS4"} -> "socks4"
      [] third \in {"http", "HTTP"}     -> "http"
      [] OTHER                          -> "none"

\* C13: the type of every descriptor load_proxies builds is the third part
\* lower-cased when that part names a supported protocol, and "http" when
\* the line has no third part or one that names no supported protocol; so
\* every type is one of http, https, socks4, socks5.
C13_TypeSupported ==
    entry = "load_proxies" =>
        \A k \in 1..Len(proxies) :
            LET line == AcceptedLines[k]
            IN  /\ proxies[k].type \in {"http", "https", "socks4", "socks5"}
                /\ proxies[k].type =
                       IF line.n >= 3 /\ NamedProtocol(line.third) # "none"
                       THEN NamedProtocol(line.third)
                       ELSE "http"

\* C13 witness: an upper-case name and an unsupported name on two lines.
C13_Witness ==
    /\ entry = "load_proxies" /\ pc = "done"
    /\ Len(lines) = 2
    /\ lines[1].third = "SOCKS5"
    /\ lines[2].third = "ftp"
    /\ Len(proxies) = 2
    /\ proxies[1].type = "socks5"
    /\ proxies[2].type = "http"

\* C14: check_all_proxies called with an empty list returns an empty result
\* list at its first step: no pool is created, no task is submitted and no
\* progress line is printed.
C14_EmptyListReturnsAtOnce ==
    (entry = "check_all_proxies" /\ proxies = <<>>
         /\ pc # "check_all_proxies") =>
        /\ pc = "done"
        /\ cap_returned
        /\ results = <<>>
        /\ pool = "none"
        /\ max_workers = 0
        /\ \A i \in DOMAIN task : task[i] = "new"
        /\ printed = <<>>
        /\ error = NoError

C14_Witness ==
    /\ entry = "check_all_proxies"
    /\ proxies = <<>>
    /\ pc = "done"
    /\ cap_returned
    /\ pool = "none"

\* C15: every outcome check_proxy returns has the proxy, the type and the
\* working flag; the elapsed time, the HTTP status and the payload size
\* are there only in a working outcome (which has the three of them), and
\* the error is there exactly in an outcome that is not working.
C15_OutcomeShape ==
    (entry = "check_proxy" /\ pc = "done" /\ ret.kind = "return") =>
        LET v == ret.value
            measures == {"time", "status", "content_length"}
        IN  /\ {"proxy", "working", "type"} \subseteq DOMAIN v
            /\ (measures \cap DOMAIN v # {}) => v.working
            /\ v.working => measures \subseteq DOMAIN v
            /\ ("error" \in DOMAIN v) <=> ~v.working

\* C15 witness: a response with status 404 came back, and the outcome
\* returned carries the error and no status.
C15_Witness ==
    /\ entry = "check_proxy" /\ pc = "done" /\ ret.kind = "return"
    /\ Answered
    /\ call.net.status = 404
    /\ DOMAIN ret.value = {"proxy", "working", "type", "error"}

\* The address or the port of the direct call is malformed.
Malformed ==
    \/ call.proxy.form # "ip:port"
    \/ call.proxy.ip <= 0
    \/ ~call.proxy.port.isint
    \/ call.proxy.port.val < 1
    \/ call.proxy.port.val > 65535

\* The type of the direct call is outside the supported set.
Unsupported == Lower(call.type) \notin {"http", "https", "socks4", "socks5"}

ProbeEnded(p) ==
    IF p = 0 THEN entry = "check_proxy" /\ pc = "done"
    ELSE p \in DOMAIN task /\ task[p] = "done"

\* C17: every probe works on a session of its own and has closed it when
\* it ends, however it ends (a working outcome, a failure outcome of any
\* kind, an exception): no session is used by two probes, and no session
\* of a probe that has ended is still open.
C17_OwnSessionClosed ==
    /\ \A u, v \in session_uses : u[1] = v[1] => u[2] = v[2]
    /\ \A u \in session_uses : ProbeEnded(u[2]) => u[1] \notin open_sessions
    /\ \A sid \in open_sessions : \E u \in session_uses : u[1] = sid

\* C17 witness: a batch of two probes, the first ended in a timeout and the
\* second as a working outcome; each had its session and both are closed.
C17_Witness ==
    /\ cap_returned
    /\ Len(proxies) = 2
    /\ Cardinality(session_uses) = 2
    /\ open_sessions = {}
    /\ \E k \in DOMAIN results :
           results[k] = Failure(proxies[1].proxy, proxies[1].type, "Timeout")
    /\ \E k \in DOMAIN results : results[k].working

\* C18: one progress line is printed per submitted descriptor and the k-th
\* line shows the count k; the completed counter never exceeds the total,
\* counts one per collected outcome, and equals the total and the number of
\* collected outcomes when check_all_proxies returns.
C18_OneLinePerDescriptor ==
    entry \in {"main", "check_all_proxies"} =>
        /\ \A k \in DOMAIN printed : printed[k].count = k
        /\ completed <= total
        /\ completed = Len(results)
        /\ (cap_returned /\ proxies # <<>>) =>
               /\ Len(printed) = Len(proxies)
               /\ completed = total

\* C19: save_working_proxies leaves its input as it was: the step keeps
\* results, element for element and in the same order, and gives back as
\* the working list the working outcomes of results, also when the output
\* file cannot be opened or written (no exception leaves the call).
C19_InputNotMutated ==
    [][pc = "save_working_proxies" =>
           /\ results' = results
           /\ pc' # "raised"
           /\ Len(working') = Len(SelectSeq(results, LAMBDA r : r.working))
           /\ \A r \in Range(results) : r.working => r \in Range(working')]_vars

\* C19 witness: two working outcomes, the slower one first, and a file that
\* could not be written; the working list came back sorted and the input
\* is in its old order.
C19_Witness ==
    /\ entry = "save_working_proxies" /\ pc = "done"
    /\ ~saved
    /\ Len(results) = 2
    /\ results[1].working /\ results[2].working
    /\ results[1].time > results[2].time
    /\ working = <<results[2], results[1]>>

\* C20: check_all_proxies returns only when every probe it submitted has
\* ended: in a returned state no task is running or queued (or was never
\* submitted), every future holds its result or its exception, and the
\* pool is shut down.
C20_ReturnsAfterAllProbes ==
    (cap_returned /\ proxies # <<>>) =>
        /\ pool = "shut"
        /\ \A i \in DOMAIN task : task[i] = "done" /\ future[i] # Pending
        /\ Len(finishOrder) = Len(proxies)

\* C20 witness: two descriptors on a pool of one thread, so that the second
\* was queued while the first ran; the call has returned.
C20_Witness ==
    /\ cap_returned
    /\ Len(proxies) = 2
    /\ max_workers = 1
    /\ pool = "shut"
    /\ finishOrder = <<1, 2>>

====
